---- MODULE Spec2Model ----
(***************************************************************************)
(* Data preparation, dataset index and retrieval of the tennis ball        *)
(* tracking notebooks (coordinate-only pipeline,                           *)
(* tennis_ball_tracking_xy_sportball_aug8_colab.ipynb).                    *)
(*                                                                         *)
(* The file system under dataset_dir is the state.  File and directory     *)
(* names are sequences of tokens ("0000", ".jpg", "_labels", ".npy"), so   *)
(* that with_suffix, splitext, split('.jpg_labels') and the glob patterns  *)
(* are computed on the names and not assumed to agree.  Coordinates are    *)
(* exact fractions <<numerator, denominator>> in lowest terms.             *)
(***************************************************************************)
EXTENDS Integers, Sequences, FiniteSets, TLC

VARIABLES disk, pc, todoGames, game_dir, todoClips, clip_dir, todoImages,
          log, calledImage, calledLabels,
          data, train_df, val_df, item,
          run, glob_first, epoch, batch, saved_models

vars == <<disk, pc, todoGames, game_dir, todoClips, clip_dir, todoImages,
          log, calledImage, calledLabels,
          data, train_df, val_df, item,
          run, glob_first, epoch, batch, saved_models>>

(***************************************************************************)
(* Bounds of the model.                                                    *)
(***************************************************************************)
\* most inputs (.jpg files, Label.csv files and their rows) in the dataset directory
MaxItems == 4

\* most frames of one clip
MaxFrames == 2

\* most entries of the index whose split is examined on its own
MaxEntries == 6

\* most executions of the preparation cell on one dataset directory
MaxRuns == 2

(***************************************************************************)
(* Program constants.                                                      *)
(***************************************************************************)
\* image_size = (224, 224): (width, height) handed to cv2.resize
image_size == <<224, 224>>

(***************************************************************************)
(* Directory layout <root>/<game-dir>/<clip-dir>/ and the input domain.    *)
(***************************************************************************)
GameDirs == {<<"game", "1">>, <<"game", "2">>}

\* the clip directories of a game directory
ClipDirs(g) ==
    IF g = <<"game", "1">> THEN {<<"Clip", "1">>, <<"Clip", "2">>} ELSE {<<"Clip", "1">>}

FrameStems == <<"0000", "0001", "0002", "0003", "0004", "0005", "0006", "0007">>

\* (width, height) of the source images
OrigSizes == {<<1280, 720>>}

\* raw (x, y) annotations in pixels
RawPoints == {<<640, 360>>}

None == [kind |-> "none"]

(***************************************************************************)
(* Names and paths.                                                        *)
(***************************************************************************)
DotTokens == {".jpg", ".npy", ".csv"}

\* position of the last '.' of a name that is not its first character, or 0
LastDot(s) ==
    LET I == {i \in 2..Len(s) : s[i] \in DotTokens}
    IN  IF I = {} THEN 0 ELSE CHOOSE i \in I : \A j \in I : j <= i

\* PurePath.stem
stem(s) == IF LastDot(s) = 0 THEN s ELSE SubSeq(s, 1, LastDot(s) - 1)

\* the suffix appended to the whole name
with_suffix_appended(s, suffix) == s \o suffix

\* PurePath.with_suffix(suffix)
with_suffix(s, suffix) == stem(s) \o suffix

\* os.path.splitext(name): <<root, ext>>
splitext(s) ==
    IF LastDot(s) = 0 THEN <<s, <<>>>>
    ELSE <<SubSeq(s, 1, LastDot(s) - 1), SubSeq(s, LastDot(s), Len(s))>>

\* str.split(sep)[0]: the part of s before the first occurrence of sep
split_first(s, sep) ==
    LET At(i) == i + Len(sep) - 1 <= Len(s) /\ SubSeq(s, i, i + Len(sep) - 1) = sep
        I == {i \in 1..Len(s) : At(i)}
    IN  IF I = {} THEN s
        ELSE SubSeq(s, 1, (CHOOSE i \in I : \A j \in I : i <= j) - 1)

\* fnmatch of a name against '<prefix>*'
MatchPrefix(s, prefix) == Len(s) >= 1 /\ s[1] = prefix

\* fnmatch of a name against '*<ext>'
MatchExt(s, ext) == Len(s) >= 2 /\ s[Len(s)] = ext

Path(g, c, n) == [game |-> g, clip |-> c, name |-> n]

\* csv_file.parent / name, csv_file.with_name(name)
Sibling(p, n) == [p EXCEPT !.name = n]

\* Path.glob(pattern) in one clip directory, as the set of matches
GlobExt(d, g, c, ext) ==
    {p \in DOMAIN d : p.game = g /\ p.clip = c /\ MatchExt(p.name, ext)}

\* a pattern 'Label*.csv' in the place of the literal name
GlobName_wildcard(d, g, c, n) ==
    {p \in DOMAIN d : p.game = g /\ p.clip = c
                        /\ p.name[1] = n[1] /\ p.name[Len(p.name)] = n[Len(n)]}

GlobName(d, g, c, n) ==
    {p \in DOMAIN d : p.game = g /\ p.clip = c /\ p.name = n}

LabelCsv == <<"Label", ".csv">>

(***************************************************************************)
(* Exact fractions.                                                        *)
(***************************************************************************)
RECURSIVE GCD(_, _)
GCD(a, b) == IF b = 0 THEN a ELSE GCD(b, a % b)

Rat(n, d) == LET g == GCD(n, d) IN <<n \div g, d \div g>>

RMul(a, b) == Rat(a[1] * b[1], a[2] * b[2])

RDiv(a, b) == Rat(a[1] * b[2], a[2] * b[1])

\* a - b, left unreduced for the division that follows it
RSub(a, b) == <<a[1] * b[2] - b[1] * a[2], a[2] * b[2]>>

FromInt(n) == <<n, 1>>

\* 0 <= a <= 1
InUnit(a) == 0 <= a[1] /\ a[1] <= a[2]

(***************************************************************************)
(* File contents and the file system.                                      *)
(***************************************************************************)
JpgFile(ok, size, pix) == [kind |-> "jpg", ok |-> ok, size |-> size, pix |-> pix]

CsvFile(state, rows) == [kind |-> "csv", state |-> state, rows |-> rows]

NpyFile(arr) == [kind |-> "npy", arr |-> arr]

\* a write that stores, with the content, the number of the execution it is made in
Write_stamped(d, p, v) ==
    [q \in DOMAIN d \cup {p} |-> IF q = p THEN [kind |-> v.kind, content |-> v, stamp |-> run]
                                  ELSE d[q]]

Write(d, p, v) == [q \in DOMAIN d \cup {p} |-> IF q = p THEN v ELSE d[q]]

\* the ImageNet mean and standard deviation, one value per channel
mean == <<Rat(485, 1000), Rat(456, 1000), Rat(406, 1000)>>

std == <<Rat(229, 1000), Rat(224, 1000), Rat(225, 1000)>>

\* the intensities of a few pixels of an image as the decoder returns them, each
\* in the order blue, green, red
SamplePixels == <<<<0, 0, 0>>, <<10, 128, 255>>>>

\* cv2.imread: the decoded BGR array of shape (height, width, 3), or None
imread(d, p) ==
    IF p \in DOMAIN d /\ d[p].kind = "jpg" /\ d[p].ok
    THEN [kind |-> "array", shape |-> <<d[p].size[2], d[p].size[1], 3>>,
          pix |-> d[p].pix, order |-> "BGR", scale |-> "uint8",
          pixels |-> SamplePixels]
    ELSE None

\* the image left at its original size
resize_skipped(image, dsize) == image

\* cv2.resize(image, dsize) with dsize = (width, height); the samples stand from
\* here on for pixels of the resized image, the interpolation is not modelled
resize(image, dsize) == [image EXCEPT !.shape = <<dsize[2], dsize[1], 3>>]

\* the division by 255 with the channels left in the decoder's order
cvtColorUnit_no_reorder(image) ==
    [image EXCEPT
       !.scale = "unit",
       !.pixels = [k \in DOMAIN image.pixels |->
                     [c \in 1..3 |-> <<image.pixels[k][c], 255>>]]]

\* cv2.cvtColor(image, cv2.COLOR_BGR2RGB) / 255.0: the channels reversed, then
\* every intensity v divided by 255, kept as the fraction v / 255
cvtColorUnit(image) ==
    [image EXCEPT
       !.order = "RGB",
       !.scale = "unit",
       !.pixels = [k \in DOMAIN image.pixels |->
                     [c \in 1..3 |-> <<image.pixels[k][4 - c], 255>>]]]

\* (image - mean) / std, mean and std broadcast along the channel axis
standardize(image) ==
    [image EXCEPT
       !.scale = "standardized",
       !.pixels = [k \in DOMAIN image.pixels |->
                     [c \in 1..3 |-> RDiv(RSub(image.pixels[k][c], mean[c]), std[c])]]]

(***************************************************************************)
(* process_image                                                           *)
(***************************************************************************)
ImageError(image_file) == [what |-> "image", path |-> image_file]

LabelsError(csv_file) == [what |-> "labels", path |-> csv_file]

\* an except clause that names the I/O and parsing errors only
ExceptionSubclasses_io ==
    {"cv2.error", "OSError", "ParserError", "AttributeError", "KeyError"}

\* the classes an "except Exception" clause catches, among those the bodies raise
ExceptionSubclasses ==
    {"cv2.error", "OSError", "ParserError", "StopIteration", "AttributeError", "KeyError",
     "ValueError"}

NoExc == "none"

\* the try body of process_image: [exc, disk]; save_ok is whether np.save succeeds
process_image_body(d, image_file, save_ok) ==
    LET image == imread(d, image_file)
    IN  IF image = None THEN [exc |-> "cv2.error", disk |-> d]
        ELSE IF ~save_ok THEN [exc |-> "OSError", disk |-> d]
        ELSE [exc |-> NoExc,
              disk |-> Write(d, Sibling(image_file, with_suffix(image_file.name, <<".npy">>)),
                             NpyFile(standardize(cvtColorUnit(resize(image, image_size)))))]

\* try / except Exception as e: print(...): [disk, log, raised]
TryExcept(r, lg, message) ==
    IF r.exc = NoExc THEN [disk |-> r.disk, log |-> lg, raised |-> FALSE]
    ELSE IF r.exc \in ExceptionSubclasses
         THEN [disk |-> r.disk, log |-> lg \cup {message}, raised |-> FALSE]
         ELSE [disk |-> r.disk, log |-> lg, raised |-> TRUE]

\* process_image without its try / except
process_image_uncaught(d, lg, image_file, save_ok) ==
    LET r == process_image_body(d, image_file, save_ok)
    IN  [disk |-> r.disk, log |-> lg, raised |-> r.exc # NoExc]

process_image(d, lg, image_file, save_ok) ==
    TryExcept(process_image_body(d, image_file, save_ok), lg, ImageError(image_file))

(***************************************************************************)
(* process_labels                                                          *)
(***************************************************************************)
\* the ratio taken the wrong way round
ScaleCoordinate_inverted(x, target, original) ==
    RMul(x, RDiv(FromInt(original), FromInt(target)))

\* x * (image_size / original_image_size), then / image_size, for one axis
ScaleCoordinate(x, target, original) ==
    RMul(x, RDiv(FromInt(target), FromInt(original)))

\* the division by the target resolution left out
NormalizeCoordinate_skipped(x, target) == x

NormalizeCoordinate(x, target) == RDiv(x, FromInt(target))

\* the size of the row's own image in the place of the clip's
AdjustRow_own_size(row, original_image_size) ==
    LET own == Path(game_dir, clip_dir, row.name)
        size == IF own \in DOMAIN disk /\ disk[own].ok THEN disk[own].size
                ELSE original_image_size
    IN  [row EXCEPT
           !.x = NormalizeCoordinate(ScaleCoordinate(row.x, image_size[1], size[1]),
                                     image_size[1]),
           !.y = NormalizeCoordinate(ScaleCoordinate(row.y, image_size[2], size[2]),
                                     image_size[2])]

AdjustRow(row, original_image_size) ==
    [row EXCEPT
       !.x = NormalizeCoordinate(
                ScaleCoordinate(row.x, image_size[1], original_image_size[1]), image_size[1]),
       !.y = NormalizeCoordinate(
                ScaleCoordinate(row.y, image_size[2], original_image_size[2]), image_size[2])]

\* the label made of all four columns of the row
label_data_all_columns(row) ==
    [kind |-> "array", shape |-> <<4>>,
     value |-> <<row.visibility, row.x, row.y, row.status>>, dtype |-> "float32"]

\* row[['x-coordinate', 'y-coordinate']].to_numpy().astype(np.float32)
label_data(row) ==
    [kind |-> "array", shape |-> <<2>>, value |-> <<row.x, row.y>>, dtype |-> "float32"]

\* one label file per clip, whatever the row
LabelsName_per_clip(file_name) == <<"labels", ".npy">>

\* f'{row["file name"]}_labels.npy'
LabelsName(file_name) == file_name \o <<"_labels", ".npy">>

\* the updated table saved under the name of the original
UpdatedName_in_place(csv_name) == csv_name

\* f'{csv_file.stem}_updated.csv'
UpdatedName(csv_name) == stem(csv_name) \o <<"_updated", ".csv">>

\* the np.save calls of the first n rows, in row order
\* a row loop that runs from the last row of the table upwards
RECURSIVE SaveRows_from_last(_, _, _, _)
SaveRows_from_last(d, csv_file, rows, n) ==
    IF n = 0 THEN d
    ELSE Write(SaveRows_from_last(d, csv_file, rows, n - 1),
               Sibling(csv_file, LabelsName(rows[Len(rows) + 1 - n].name)),
               NpyFile(label_data(rows[Len(rows) + 1 - n])))

RECURSIVE SaveRows(_, _, _, _)
SaveRows(d, csv_file, rows, n) ==
    IF n = 0 THEN d
    ELSE Write(SaveRows(d, csv_file, rows, n - 1),
               Sibling(csv_file, LabelsName(rows[n].name)),
               NpyFile(label_data(rows[n])))

\* the try body of process_labels: [exc, disk].  pd.read_csv raises ValueError for an
\* argument that is no file of the directory (a tensor).  first is the first match of
\* glob('*.jpg') (None when there is none); fail_at = k in 1..n makes the np.save
\* of row k fail, fail_at = n + 1 makes to_csv fail, fail_at = 0 lets all writes succeed
process_labels_body(d, csv_file, first, fail_at) ==
    IF csv_file \notin DOMAIN d THEN [exc |-> "ValueError", disk |-> d]
    ELSE IF d[csv_file].state = "unreadable" THEN [exc |-> "ParserError", disk |-> d]
    ELSE IF first = None THEN [exc |-> "StopIteration", disk |-> d]
    ELSE IF imread(d, first) = None THEN [exc |-> "AttributeError", disk |-> d]
    ELSE IF d[csv_file].state = "nocolumn" THEN [exc |-> "KeyError", disk |-> d]
    ELSE
      LET image == imread(d, first)
          original_image_size == <<image.shape[2], image.shape[1]>>
          raw == d[csv_file].rows
          n == Len(raw)
          labels_df == [k \in 1..n |-> AdjustRow(raw[k], original_image_size)]
      IN  IF fail_at \in 1..n
          THEN [exc |-> "OSError", disk |-> SaveRows(d, csv_file, labels_df, fail_at - 1)]
          ELSE IF fail_at = n + 1
          THEN [exc |-> "OSError", disk |-> SaveRows(d, csv_file, labels_df, n)]
          ELSE [exc |-> NoExc,
                disk |-> Write(SaveRows(d, csv_file, labels_df, n),
                               Sibling(csv_file, UpdatedName(csv_file.name)),
                               CsvFile("ok", labels_df))]

\* process_labels without its try / except
process_labels_uncaught(d, lg, csv_file, first, fail_at) ==
    LET r == process_labels_body(d, csv_file, first, fail_at)
    IN  [disk |-> r.disk, log |-> lg, raised |-> r.exc # NoExc]

process_labels(d, lg, csv_file, first, fail_at) ==
    TryExcept(process_labels_body(d, csv_file, first, fail_at), lg, LabelsError(csv_file))

\* the value of a call of process_labels that returned: the function has no return
\* statement
process_labels_value(returned) == None


(***************************************************************************)
(* The dataset directory before the preparation runs.  The frames of a     *)
(* clip are numbered from 0000 and its table lists them in that order.     *)
(***************************************************************************)
Clips == UNION {{<<g, c>> : c \in ClipDirs(g)} : g \in GameDirs}

JpgName(i) == <<FrameStems[i], ".jpg">>

\* the size recorded for a .jpg file that does not decode
Corrupt == <<0, 0>>

\* a .jpg file is corrupt or holds an image of one of the original sizes
JpgStates == {Corrupt} \cup OrigSizes

\* the .jpg files of one clip: the state of each of its first k frames
ClipJpgs == UNION {[1..k -> JpgStates] : k \in 0..MaxFrames}

\* the rows of one table: the annotation of each of its first k >= 1 frames
ClipRows ==
    {[k \in DOMAIN pts |->
         [name |-> JpgName(k), visibility |-> k % 4, x |-> FromInt(pts[k][1]),
          y |-> FromInt(pts[k][2]), status |-> k % 3]] :
       pts \in UNION {[1..k -> RawPoints] : k \in 1..MaxFrames}}

CsvOptions ==
    {None, CsvFile("unreadable", <<>>), CsvFile("nocolumn", <<>>)}
        \cup {CsvFile("ok", t) : t \in ClipRows}

RECURSIVE TotalItems(_, _, _)
TotalItems(jpgs, csvs, S) ==
    IF S = {} THEN 0
    ELSE LET c == CHOOSE c \in S : TRUE
         IN  Len(jpgs[c]) + (IF csvs[c] = None THEN 0 ELSE 1 + Len(csvs[c].rows))
               + TotalItems(jpgs, csvs, S \ {c})

InitialDisk(jpgs, csvs) ==
    LET JP == {Path(c[1], c[2], JpgName(i)) : c \in Clips, i \in 1..Len(FrameStems)}
        CP == {Path(c[1], c[2], LabelCsv) : c \in Clips}
        Index(p) == CHOOSE i \in 1..Len(FrameStems) : JpgName(i) = p.name
        Has(p) == IF p \in CP THEN csvs[<<p.game, p.clip>>] # None
                  ELSE Index(p) <= Len(jpgs[<<p.game, p.clip>>])
    IN  [p \in {q \in JP \cup CP : Has(q)} |->
            IF p \in CP THEN csvs[<<p.game, p.clip>>]
            ELSE LET st == jpgs[<<p.game, p.clip>>][Index(p)]
                 IN  JpgFile(st # Corrupt, st, <<p.game, p.clip, p.name>>)]

NoDir == <<>>

\* no clip directory has been listed yet
NoFirst == [c \in Clips |-> None]

\* before the training cell runs
TrainInit ==
    /\ epoch = 0
    /\ batch = 0
    /\ saved_models = {}

Init ==
    /\ \E jpgs \in [Clips -> ClipJpgs], csvs \in [Clips -> CsvOptions] :
         /\ TotalItems(jpgs, csvs, Clips) <= MaxItems
         /\ disk = InitialDisk(jpgs, csvs)
    /\ pc = "loop"
    /\ todoGames = {g \in GameDirs : MatchPrefix(g, "game")}
    /\ game_dir = NoDir
    /\ todoClips = {}
    /\ clip_dir = NoDir
    /\ todoImages = {}
    /\ log = {}
    /\ calledImage = {}
    /\ calledLabels = {}
    /\ data = <<>>
    /\ train_df = <<>>
    /\ val_df = <<>>
    /\ item = None
    /\ run = 1
    /\ glob_first = NoFirst
    /\ TrainInit

(***************************************************************************)
(* One annotated frame, over a wider range of sizes and coordinates.       *)
(***************************************************************************)
LabelSizes == {<<1280, 720>>, <<640, 360>>, <<1920, 1080>>}

LabelXs == {0, 640, 1280, 1920, 2000}

LabelYs == {0, 360, 720, 1080}

FirstClip == <<<<"game", "1">>, <<"Clip", "1">>>>

LabelsInit ==
    /\ \E size \in LabelSizes, x \in LabelXs, y \in LabelYs :
         disk = InitialDisk(
                  [c \in Clips |-> IF c = FirstClip THEN <<size>> ELSE <<>>],
                  [c \in Clips |->
                     IF c = FirstClip
                     THEN CsvFile("ok", <<[name |-> JpgName(1), visibility |-> 1,
                                           x |-> FromInt(x), y |-> FromInt(y),
                                           status |-> 0]>>)
                     ELSE None])
    /\ pc = "loop"
    /\ todoGames = {g \in GameDirs : MatchPrefix(g, "game")}
    /\ game_dir = NoDir
    /\ todoClips = {}
    /\ clip_dir = NoDir
    /\ todoImages = {}
    /\ log = {}
    /\ calledImage = {}
    /\ calledLabels = {}
    /\ data = <<>>
    /\ train_df = <<>>
    /\ val_df = <<>>
    /\ item = None
    /\ run = 1
    /\ glob_first = NoFirst
    /\ TrainInit

(***************************************************************************)
(* The batch loop: for game_dir ... for clip_dir ... for image_file ...    *)
(***************************************************************************)
\* the training loop's position and the checkpoints it has written
TrainVars == <<epoch, batch, saved_models>>

IndexVars == <<data, train_df, val_df, item, TrainVars>>

\* next(csv_file.parent.glob('*.jpg')): no match (None), any match the first time
\* the clip is listed, and the same match when the unchanged set of .jpg files is
\* listed again
FirstJpgs(d, firsts, g, c) ==
    LET jpgs == GlobExt(d, g, c, ".jpg")
    IN  IF jpgs = {} THEN {None}
        ELSE IF firsts[<<g, c>>] \in jpgs THEN {firsts[<<g, c>>]}
        ELSE jpgs

\* game_dir.glob('Clip*')
ClipsOf(g) == {c \in ClipDirs(g) : MatchPrefix(c, "Clip")}

\* the loop headers: the next clip of this game, or the first clip of a next game
EnterClip ==
    /\ pc = "loop"
    /\ \/ \E c \in todoClips :
            /\ clip_dir' = c
            /\ todoClips' = todoClips \ {c}
            /\ todoImages' = GlobExt(disk, game_dir, c, ".jpg")
            /\ UNCHANGED <<todoGames, game_dir>>
       \/ /\ todoClips = {}
          /\ \E g \in todoGames : \E c \in ClipsOf(g) :
               /\ game_dir' = g
               /\ todoGames' = todoGames \ {g}
               /\ clip_dir' = c
               /\ todoClips' = ClipsOf(g) \ {c}
               /\ todoImages' = GlobExt(disk, g, c, ".jpg")
    /\ pc' = "images"
    /\ UNCHANGED <<disk, log, calledImage, calledLabels, IndexVars, run, glob_first>>

EndBatch ==
    /\ pc = "loop"
    /\ todoClips = {}
    /\ todoGames = {}
    /\ pc' = "done"
    /\ UNCHANGED <<disk, todoGames, game_dir, todoClips, clip_dir, todoImages,
                   log, calledImage, calledLabels, IndexVars, run, glob_first>>

ImageStep ==
    /\ pc = "images"
    /\ \E image_file \in todoImages, save_ok \in BOOLEAN :
         LET r == process_image(disk, log, image_file, save_ok)
         IN  /\ disk' = r.disk
             /\ log' = r.log
             /\ calledImage' = calledImage \cup {image_file}
             /\ todoImages' = todoImages \ {image_file}
             /\ pc' = IF r.raised THEN "crashed" ELSE "images"
    /\ UNCHANGED <<todoGames, game_dir, todoClips, clip_dir, calledLabels, IndexVars,
                   run, glob_first>>

\* the labels of a clip processed while images of the clip are still to come
LabelsStep_before_images ==
    /\ pc = "images"
    /\ GlobName(disk, game_dir, clip_dir, LabelCsv) # {}
    /\ \E csv_file \in GlobName(disk, game_dir, clip_dir, LabelCsv) :
       \E first \in FirstJpgs(disk, glob_first, game_dir, clip_dir),
          fail_at \in 0..(Len(disk[csv_file].rows) + 1) :
             LET r == process_labels(disk, log, csv_file, first, fail_at)
             IN  /\ disk' = r.disk
                 /\ log' = r.log
                 /\ calledLabels' = calledLabels \cup {csv_file}
                 /\ glob_first' = [glob_first EXCEPT ![<<game_dir, clip_dir>>] = first]
                 /\ pc' = IF r.raised THEN "crashed" ELSE "loop"
    /\ UNCHANGED <<todoGames, game_dir, todoClips, clip_dir, todoImages, calledImage, IndexVars,
                   run>>

\* csv_files = list(clip_dir.glob('Label.csv')); if csv_files: process_labels(csv_files[0])
LabelsStep ==
    /\ pc = "images"
    /\ todoImages = {}
    /\ GlobName(disk, game_dir, clip_dir, LabelCsv) # {}
    /\ \E csv_file \in GlobName(disk, game_dir, clip_dir, LabelCsv) :
       \E first \in FirstJpgs(disk, glob_first, game_dir, clip_dir),
          fail_at \in 0..(Len(disk[csv_file].rows) + 1) :
             LET r == process_labels(disk, log, csv_file, first, fail_at)
             IN  /\ disk' = r.disk
                 /\ log' = r.log
                 /\ calledLabels' = calledLabels \cup {csv_file}
                 /\ glob_first' = [glob_first EXCEPT ![<<game_dir, clip_dir>>] = first]
                 /\ pc' = IF r.raised THEN "crashed" ELSE "loop"
    /\ UNCHANGED <<todoGames, game_dir, todoClips, clip_dir, todoImages, calledImage, IndexVars,
                   run>>

NoLabelsStep ==
    /\ pc = "images"
    /\ todoImages = {}
    /\ GlobName(disk, game_dir, clip_dir, LabelCsv) = {}
    /\ pc' = "loop"
    /\ UNCHANGED <<disk, todoGames, game_dir, todoClips, clip_dir, todoImages,
                   log, calledImage, calledLabels, IndexVars, run, glob_first>>

BatchNext ==
    \/ EnterClip
    \/ EndBatch
    \/ ImageStep
    \/ LabelsStep
    \/ NoLabelsStep

(***************************************************************************)
(* The dataset index: the scan of game*/Clip*/*.npy into data / df.        *)
(***************************************************************************)
RECURSIVE Perms(_)
Perms(S) ==
    IF S = {} THEN {<<>>}
    ELSE UNION {{<<x>> \o t : t \in Perms(S \ {x})} : x \in S}

\* the orders in which the three nested glob loops can visit a set of files:
\* the files of one game are adjacent, and so are the files of one clip
ScanOrders(P) ==
    {s \in Perms(P) :
        \A i, j, k \in 1..Len(s) :
            (i < j /\ j < k) =>
                /\ (s[i].game = s[k].game => s[j].game = s[i].game)
                /\ (s[i].game = s[k].game /\ s[i].clip = s[k].clip
                       => s[j].clip = s[i].clip)}

\* the files the scan visits
Scanned(d) ==
    {p \in DOMAIN d : /\ MatchPrefix(p.game, "game")
                      /\ MatchPrefix(p.clip, "Clip")
                      /\ MatchExt(p.name, ".npy")}

\* the dict appended for image_file
Entry(image_file) ==
    [file_name |-> splitext(image_file.name)[1],
     clip_directory |-> image_file.clip,
     game_directory |-> image_file.game]

BuildIndex ==
    /\ pc = "done"
    /\ \E s \in ScanOrders(Scanned(disk)) :
         data' = [i \in 1..Len(s) |-> Entry(s[i])]
    /\ pc' = "indexed"
    /\ UNCHANGED <<disk, todoGames, game_dir, todoClips, clip_dir, todoImages,
                   log, calledImage, calledLabels, train_df, val_df, item, TrainVars,
                   run, glob_first>>

(***************************************************************************)
(* train_test_split(df, test_size=0.2)                                     *)
(***************************************************************************)
\* test_size = 0.2, as the fraction 1/5
test_size == <<1, 5>>

\* ceil(test_size * n_samples): the product of 0.2 and n rounds to n/5 exactly
\* when 5 divides n, so the floating point ceiling is the exact one
n_test_of(n_samples) ==
    (n_samples * test_size[1] + test_size[2] - 1) \div test_size[2]

\* train_size is None: the complement of the test set
n_train_of(n_samples) == n_samples - n_test_of(n_samples)

\* the ValueError of _validate_shuffle_split: the train set would be empty
SplitFails(n_samples) == n_train_of(n_samples) = 0

\* both parts sliced from the start of the permutation
SplitBy_overlapping(df, permutation) ==
    LET n_test == n_test_of(Len(df))
        n_train == n_train_of(Len(df))
    IN  <<[i \in 1..n_train |-> df[permutation[i]]],
          [i \in 1..n_test |-> df[permutation[i]]]>>

\* <<train, test>> for one permutation of the row positions
SplitBy(df, permutation) ==
    LET n_test == n_test_of(Len(df))
        n_train == n_train_of(Len(df))
    IN  <<[i \in 1..n_train |-> df[permutation[n_test + i]]],
          [i \in 1..n_test |-> df[permutation[i]]]>>

Split ==
    /\ pc = "indexed"
    /\ ~SplitFails(Len(data))
    /\ \E permutation \in Perms(1..Len(data)) :
         /\ train_df' = SplitBy(data, permutation)[1]
         /\ val_df' = SplitBy(data, permutation)[2]
    /\ pc' = "ready"
    /\ UNCHANGED <<disk, todoGames, game_dir, todoClips, clip_dir, todoImages,
                   log, calledImage, calledLabels, data, item, TrainVars, run, glob_first>>

SplitError ==
    /\ pc = "indexed"
    /\ SplitFails(Len(data))
    /\ pc' = "split_error"
    /\ UNCHANGED <<disk, todoGames, game_dir, todoClips, clip_dir, todoImages,
                   log, calledImage, calledLabels, IndexVars, run, glob_first>>

(***************************************************************************)
(* TennisDataset                                                           *)
(***************************************************************************)
\* TennisDataset.__len__
len(dataframe) == Len(dataframe)

\* np.load(path): the stored array; the caller checks that the file exists
np_load(d, path) == d[path].arr

\* image.transpose((2, 0, 1))
transpose(image) ==
    [image EXCEPT !.shape = <<image.shape[3], image.shape[1], image.shape[2]>>]

\* a retrieval that substitutes a zero label for a missing label artifact
getitem_zero_filled(d, dataframe, idx) ==
    LET row == dataframe[idx]
        base_file_name == split_first(row.file_name, <<".jpg", "_labels">>)
        image_path == Path(row.game_directory, row.clip_directory,
                           base_file_name \o <<".npy">>)
        labels_path == Path(row.game_directory, row.clip_directory,
                            base_file_name \o <<".jpg", "_labels", ".npy">>)
        zeros == [kind |-> "array", shape |-> <<2>>, value |-> <<<<0, 1>>, <<0, 1>>>>,
                  dtype |-> "float32"]
    IN  IF image_path \notin DOMAIN d
        THEN [raised |-> TRUE, exc |-> "FileNotFoundError", image |-> None, labels |-> None,
              image_path |-> image_path, labels_path |-> labels_path]
        ELSE [raised |-> FALSE, exc |-> NoExc,
              image |-> transpose(np_load(d, image_path)),
              labels |-> IF labels_path \in DOMAIN d THEN np_load(d, labels_path) ELSE zeros,
              image_path |-> image_path, labels_path |-> labels_path]

\* a retrieval that looks for '<file name>_labels.npy', as the multitask notebook does
getitem_other_naming(d, dataframe, idx) ==
    LET row == dataframe[idx]
        base_file_name == row.file_name
        image_path == Path(row.game_directory, row.clip_directory,
                           base_file_name \o <<".npy">>)
        labels_path == Path(row.game_directory, row.clip_directory,
                            base_file_name \o <<"_labels", ".npy">>)
        failed(exc) == [raised |-> TRUE, exc |-> exc, image |-> None, labels |-> None,
                        image_path |-> image_path, labels_path |-> labels_path]
    IN  IF image_path \notin DOMAIN d THEN failed("FileNotFoundError")
        ELSE IF labels_path \notin DOMAIN d THEN failed("FileNotFoundError")
        ELSE IF Len(np_load(d, image_path).shape) # 3 THEN failed("ValueError")
        ELSE [raised |-> FALSE, exc |-> NoExc,
              image |-> transpose(np_load(d, image_path)),
              labels |-> np_load(d, labels_path),
              image_path |-> image_path, labels_path |-> labels_path]

\* a retrieval that takes the row after the requested one
getitem_next_row(d, dataframe, idx) ==
    LET row == dataframe[(idx % Len(dataframe)) + 1]
        base_file_name == split_first(row.file_name, <<".jpg", "_labels">>)
        image_path == Path(row.game_directory, row.clip_directory,
                           base_file_name \o <<".npy">>)
        labels_path == Path(row.game_directory, row.clip_directory,
                            base_file_name \o <<".jpg", "_labels", ".npy">>)
        failed(exc) == [raised |-> TRUE, exc |-> exc, image |-> None, labels |-> None,
                        image_path |-> image_path, labels_path |-> labels_path]
    IN  IF image_path \notin DOMAIN d THEN failed("FileNotFoundError")
        ELSE IF labels_path \notin DOMAIN d THEN failed("FileNotFoundError")
        ELSE IF Len(np_load(d, image_path).shape) # 3 THEN failed("ValueError")
        ELSE [raised |-> FALSE, exc |-> NoExc,
              image |-> transpose(np_load(d, image_path)),
              labels |-> np_load(d, labels_path),
              image_path |-> image_path, labels_path |-> labels_path]

\* a retrieval whose augmentation mirrors the label on every repeated retrieval
getitem_flipping(d, dataframe, idx) ==
    LET row == dataframe[idx]
        base_file_name == split_first(row.file_name, <<".jpg", "_labels">>)
        image_path == Path(row.game_directory, row.clip_directory,
                           base_file_name \o <<".npy">>)
        labels_path == Path(row.game_directory, row.clip_directory,
                            base_file_name \o <<".jpg", "_labels", ".npy">>)
        failed(exc) == [raised |-> TRUE, exc |-> exc, image |-> None, labels |-> None,
                        image_path |-> image_path, labels_path |-> labels_path]
    IN  IF image_path \notin DOMAIN d THEN failed("FileNotFoundError")
        ELSE IF labels_path \notin DOMAIN d THEN failed("FileNotFoundError")
        ELSE IF Len(np_load(d, image_path).shape) # 3 THEN failed("ValueError")
        ELSE [raised |-> FALSE, exc |-> NoExc,
              image |-> transpose(np_load(d, image_path)),
              labels |-> IF item = None THEN np_load(d, labels_path)
                         ELSE [np_load(d, labels_path) EXCEPT !.dtype = "mirrored"],
              image_path |-> image_path, labels_path |-> labels_path]

\* TennisDataset.__getitem__(idx) with transform None; positions count from 1
getitem(d, dataframe, idx) ==
    LET row == dataframe[idx]
        base_file_name == split_first(row.file_name, <<".jpg", "_labels">>)
        image_path == Path(row.game_directory, row.clip_directory,
                           base_file_name \o <<".npy">>)
        labels_path == Path(row.game_directory, row.clip_directory,
                            base_file_name \o <<".jpg", "_labels", ".npy">>)
        failed(exc) == [raised |-> TRUE, exc |-> exc, image |-> None, labels |-> None,
                        image_path |-> image_path, labels_path |-> labels_path]
    IN  IF image_path \notin DOMAIN d THEN failed("FileNotFoundError")
        ELSE IF labels_path \notin DOMAIN d THEN failed("FileNotFoundError")
        ELSE IF Len(np_load(d, image_path).shape) # 3 THEN failed("ValueError")
        ELSE [raised |-> FALSE, exc |-> NoExc,
              image |-> transpose(np_load(d, image_path)),
              labels |-> np_load(d, labels_path),
              image_path |-> image_path, labels_path |-> labels_path]

Dataframe(ds) == IF ds = "train" THEN train_df ELSE val_df

\* a retrieval that consumes the row it returns
getitem_state_consuming(d, dataframe, idx) ==
    [disk |-> d,
     dataframe |-> SubSeq(dataframe, 1, idx - 1) \o SubSeq(dataframe, idx + 1, Len(dataframe))]

\* the files and the dataset's table after __getitem__: it assigns no field of self
\* and calls nothing that writes
getitem_state(d, dataframe, idx) == [disk |-> d, dataframe |-> dataframe]

GetItem ==
    /\ pc = "ready"
    /\ \E ds \in {"train", "val"} : \E idx \in 1..len(Dataframe(ds)) :
         LET after == getitem_state(disk, Dataframe(ds), idx)
         IN  /\ item' = [ds |-> ds, idx |-> idx, out |-> getitem(disk, Dataframe(ds), idx),
                         again |-> item # None /\ item.ds = ds /\ item.idx = idx]
             /\ disk' = after.disk
             /\ train_df' = IF ds = "train" THEN after.dataframe ELSE train_df
             /\ val_df' = IF ds = "val" THEN after.dataframe ELSE val_df
    /\ UNCHANGED <<pc, todoGames, game_dir, todoClips, clip_dir, todoImages,
                   log, calledImage, calledLabels, data, TrainVars, run, glob_first>>

Next ==
    \/ EnterClip
    \/ EndBatch
    \/ ImageStep
    \/ LabelsStep
    \/ NoLabelsStep
    \/ BuildIndex
    \/ Split
    \/ SplitError
    \/ GetItem

Spec == Init /\ [][Next]_vars

LabelsSpec == LabelsInit /\ [][Next]_vars

(***************************************************************************)
(* The split and the retrieval on their own, over an index of up to        *)
(* MaxEntries entries: one clip prepared without any failure.              *)
(***************************************************************************)
RECURSIVE PreparedImages(_, _, _)
PreparedImages(d, c, k) ==
    IF k = 0 THEN d
    ELSE process_image(PreparedImages(d, c, k - 1), {},
                       Path(c[1], c[2], JpgName(k)), TRUE).disk

\* the directory after the batch loop over k_img frames and k_lab rows of FirstClip
PreparedDisk(k_img, k_lab) ==
    LET size == CHOOSE sz \in OrigSizes : TRUE
        point == CHOOSE pt \in RawPoints : TRUE
        d0 == InitialDisk(
                [c \in Clips |-> IF c = FirstClip THEN [i \in 1..k_img |-> size] ELSE <<>>],
                [c \in Clips |->
                   IF c = FirstClip /\ k_lab > 0
                   THEN CsvFile("ok", [i \in 1..k_lab |->
                                         [name |-> JpgName(i), visibility |-> 1,
                                          x |-> FromInt(point[1]),
                                          y |-> FromInt(point[2]), status |-> 0]])
                   ELSE None])
        d1 == PreparedImages(d0, FirstClip, k_img)
        csv_file == Path(FirstClip[1], FirstClip[2], LabelCsv)
    IN  IF k_lab = 0 THEN d1
        ELSE process_labels(d1, {}, csv_file, Path(FirstClip[1], FirstClip[2], JpgName(1)), 0).disk

\* one order of the scan: the image artifacts, then the label artifacts
PreparedIndex(k_img, k_lab) ==
    [i \in 1..(k_img + k_lab) |->
        IF i <= k_img
        THEN Entry(Path(FirstClip[1], FirstClip[2], with_suffix(JpgName(i), <<".npy">>)))
        ELSE Entry(Path(FirstClip[1], FirstClip[2], LabelsName(JpgName(i - k_img))))]

DatasetInit ==
    /\ \E n \in 0..MaxEntries :
         /\ disk = PreparedDisk((n + 1) \div 2, n \div 2)
         /\ data = PreparedIndex((n + 1) \div 2, n \div 2)
    /\ pc = "indexed"
    /\ todoGames = {}
    /\ game_dir = <<"game", "2">>
    /\ todoClips = {}
    /\ clip_dir = <<"Clip", "1">>
    /\ todoImages = {}
    /\ log = {}
    /\ calledImage = GlobExt(disk, FirstClip[1], FirstClip[2], ".jpg")
    /\ calledLabels = GlobName(disk, FirstClip[1], FirstClip[2], LabelCsv)
    /\ train_df = <<>>
    /\ val_df = <<>>
    /\ item = None
    /\ run = 1
    /\ glob_first = NoFirst
    /\ TrainInit

(***************************************************************************)
(* The preparation cell executed again on the directory it has prepared:   *)
(* one clip with frames of two sizes, some of them corrupt, and a table     *)
(* that lists the frames (one row when the clip has no frame).             *)
(***************************************************************************)
RerunSizes == {<<1280, 720>>, <<640, 360>>}

RerunInit ==
    /\ \E jpgs \in UNION {[1..k -> {Corrupt} \cup RerunSizes] : k \in 0..MaxFrames} :
       \E t \in {r \in ClipRows : Len(r) = IF Len(jpgs) = 0 THEN 1 ELSE Len(jpgs)} :
         disk = InitialDisk(
                  [c \in Clips |-> IF c = FirstClip THEN jpgs ELSE <<>>],
                  [c \in Clips |-> IF c = FirstClip THEN CsvFile("ok", t) ELSE None])
    /\ pc = "loop"
    /\ todoGames = {g \in GameDirs : MatchPrefix(g, "game")}
    /\ game_dir = NoDir
    /\ todoClips = {}
    /\ clip_dir = NoDir
    /\ todoImages = {}
    /\ log = {}
    /\ calledImage = {}
    /\ calledLabels = {}
    /\ data = <<>>
    /\ train_df = <<>>
    /\ val_df = <<>>
    /\ item = None
    /\ run = 1
    /\ glob_first = NoFirst
    /\ TrainInit

\* the batch loop started again after it has ended
RunAgain ==
    /\ pc = "done"
    /\ run < MaxRuns
    /\ run' = run + 1
    /\ pc' = "loop"
    /\ todoGames' = {g \in GameDirs : MatchPrefix(g, "game")}
    /\ game_dir' = NoDir
    /\ clip_dir' = NoDir
    /\ UNCHANGED <<disk, todoClips, todoImages, log, calledImage, calledLabels, IndexVars,
                   glob_first>>

RerunNext ==
    \/ BatchNext
    \/ RunAgain

RerunSpec == RerunInit /\ [][RerunNext]_vars

DatasetNext ==
    \/ Split
    \/ SplitError
    \/ GetItem

DatasetSpec == DatasetInit /\ [][DatasetNext]_vars

(***************************************************************************)
(* The preparation of the multitask notebook: process_image and the batch  *)
(* loop are those of the coordinate-only notebook, process_labels is not.  *)
(* It maps the visibility and status codes to their names and keeps them   *)
(* in the label.                                                           *)
(***************************************************************************)
visibility_class_mapping ==
    [v \in 0..3 |-> CASE v = 0 -> "not visible"
                      [] v = 1 -> "easily identifiable"
                      [] v = 2 -> "not easily identifiable"
                      [] v = 3 -> "occluded"]

trajectory_pattern_mapping ==
    [t \in 0..2 |-> CASE t = 0 -> "flying" [] t = 1 -> "hit" [] t = 2 -> "bounding"]

\* the codes mapped to their names, the coordinates scaled to the target resolution
AdjustRow_multitask(row, original_image_size) ==
    [row EXCEPT
       !.visibility = visibility_class_mapping[row.visibility],
       !.status = trajectory_pattern_mapping[row.status],
       !.x = ScaleCoordinate(row.x, image_size[1], original_image_size[1]),
       !.y = ScaleCoordinate(row.y, image_size[2], original_image_size[2])]

\* row[['visibility', 'x-coordinate', 'y-coordinate', 'status']].to_numpy()
label_data_multitask(row) ==
    [kind |-> "array", shape |-> <<4>>,
     value |-> <<row.visibility, row.x, row.y, row.status>>, dtype |-> "object"]

RECURSIVE SaveRows_multitask(_, _, _, _)
SaveRows_multitask(d, csv_file, rows, n) ==
    IF n = 0 THEN d
    ELSE Write(SaveRows_multitask(d, csv_file, rows, n - 1),
               Sibling(csv_file, LabelsName(rows[n].name)),
               NpyFile(label_data_multitask(rows[n])))

\* the try body of the multitask process_labels: [exc, disk]
process_labels_body_multitask(d, csv_file, first, fail_at) ==
    IF csv_file \notin DOMAIN d THEN [exc |-> "ValueError", disk |-> d]
    ELSE IF d[csv_file].state = "unreadable" THEN [exc |-> "ParserError", disk |-> d]
    ELSE IF d[csv_file].state = "nocolumn" THEN [exc |-> "KeyError", disk |-> d]
    ELSE IF first = None THEN [exc |-> "StopIteration", disk |-> d]
    ELSE IF imread(d, first) = None THEN [exc |-> "AttributeError", disk |-> d]
    ELSE
      LET image == imread(d, first)
          original_image_size == <<image.shape[2], image.shape[1]>>
          raw == d[csv_file].rows
          n == Len(raw)
          labels_df == [k \in 1..n |-> AdjustRow_multitask(raw[k], original_image_size)]
      IN  IF fail_at \in 1..n
          THEN [exc |-> "OSError",
                disk |-> SaveRows_multitask(d, csv_file, labels_df, fail_at - 1)]
          ELSE IF fail_at = n + 1
          THEN [exc |-> "OSError", disk |-> SaveRows_multitask(d, csv_file, labels_df, n)]
          ELSE [exc |-> NoExc,
                disk |-> Write(SaveRows_multitask(d, csv_file, labels_df, n),
                               Sibling(csv_file, UpdatedName(csv_file.name)),
                               CsvFile("ok", labels_df))]

process_labels_multitask(d, lg, csv_file, first, fail_at) ==
    TryExcept(process_labels_body_multitask(d, csv_file, first, fail_at), lg,
              LabelsError(csv_file))

LabelsStep_multitask ==
    /\ pc = "images"
    /\ todoImages = {}
    /\ GlobName(disk, game_dir, clip_dir, LabelCsv) # {}
    /\ \E csv_file \in GlobName(disk, game_dir, clip_dir, LabelCsv) :
       \E first \in FirstJpgs(disk, glob_first, game_dir, clip_dir),
          fail_at \in 0..(Len(disk[csv_file].rows) + 1) :
             LET r == process_labels_multitask(disk, log, csv_file, first, fail_at)
             IN  /\ disk' = r.disk
                 /\ log' = r.log
                 /\ calledLabels' = calledLabels \cup {csv_file}
                 /\ glob_first' = [glob_first EXCEPT ![<<game_dir, clip_dir>>] = first]
                 /\ pc' = IF r.raised THEN "crashed" ELSE "loop"
    /\ UNCHANGED <<todoGames, game_dir, todoClips, clip_dir, todoImages, calledImage, IndexVars,
                   run>>

\* TennisDataset.__getitem__ of the multitask notebook: the base name is the
\* 'file name' value as it stands; np.load refuses an array of objects
getitem_multitask(d, dataframe, idx) ==
    LET row == dataframe[idx]
        base_file_name == row.file_name
        image_path == Path(row.game_directory, row.clip_directory,
                           base_file_name \o <<".npy">>)
        labels_path == Path(row.game_directory, row.clip_directory,
                            base_file_name \o <<"_labels", ".npy">>)
        failed(exc) == [raised |-> TRUE, exc |-> exc, image |-> None, labels |-> None,
                        image_path |-> image_path, labels_path |-> labels_path]
    IN  IF image_path \notin DOMAIN d THEN failed("FileNotFoundError")
        ELSE IF labels_path \notin DOMAIN d THEN failed("FileNotFoundError")
        ELSE IF np_load(d, labels_path).dtype = "object" THEN failed("ValueError")
        ELSE IF Len(np_load(d, image_path).shape) # 3 THEN failed("ValueError")
        ELSE [raised |-> FALSE, exc |-> NoExc,
              image |-> transpose(np_load(d, image_path)),
              labels |-> np_load(d, labels_path),
              image_path |-> image_path, labels_path |-> labels_path]

\* the 'file name' values a one-row table is given for frame F: every name of
\* one or two parts made of the frame's stem and the suffixes in use
FileNameValues(F) ==
    LET parts == {stem(F.name), <<".jpg">>, <<"_labels">>, <<".npy">>}
    IN  parts \cup {a \o b : a \in parts, b \in parts}

RowFor(F, file_name) ==
    [file_name |-> file_name, clip_directory |-> F.clip, game_directory |-> F.game]

\* one retrieval from a one-row table naming a frame of the prepared directory
GetItem_multitask ==
    /\ pc = "done"
    /\ \E F \in {q \in DOMAIN disk : MatchExt(q.name, ".jpg")} :
       \E file_name \in FileNameValues(F) :
          item' = [ds |-> "multitask", idx |-> 1, again |-> FALSE,
                   out |-> getitem_multitask(disk, <<RowFor(F, file_name)>>, 1)]
    /\ UNCHANGED <<disk, pc, todoGames, game_dir, todoClips, clip_dir, todoImages, log,
                   calledImage, calledLabels, data, train_df, val_df, TrainVars, run,
                   glob_first>>

MultitaskNext ==
    \/ EnterClip
    \/ EndBatch
    \/ ImageStep
    \/ LabelsStep_multitask
    \/ NoLabelsStep
    \/ GetItem_multitask

MultitaskSpec == LabelsInit /\ [][MultitaskNext]_vars

(***************************************************************************)
(* The two preparations over one dataset directory: the first execution is *)
(* the coordinate-only notebook's cell, the second the multitask           *)
(* notebook's.  Both write a row's label to the same path.                 *)
(***************************************************************************)
VariantsInit ==
    /\ \E size \in OrigSizes, point \in RawPoints, v \in 0..3, st \in 0..2 :
         disk = InitialDisk(
                  [c \in Clips |-> IF c = FirstClip THEN [i \in 1..2 |-> size] ELSE <<>>],
                  [c \in Clips |->
                     IF c = FirstClip
                     THEN CsvFile("ok", [i \in 1..2 |->
                                           [name |-> JpgName(i), visibility |-> v,
                                            x |-> FromInt(point[1]),
                                            y |-> FromInt(point[2]), status |-> st]])
                     ELSE None])
    /\ pc = "loop"
    /\ todoGames = {g \in GameDirs : MatchPrefix(g, "game")}
    /\ game_dir = NoDir
    /\ todoClips = {}
    /\ clip_dir = NoDir
    /\ todoImages = {}
    /\ log = {}
    /\ calledImage = {}
    /\ calledLabels = {}
    /\ data = <<>>
    /\ train_df = <<>>
    /\ val_df = <<>>
    /\ item = None
    /\ run = 1
    /\ glob_first = NoFirst
    /\ TrainInit

VariantsNext ==
    \/ EnterClip
    \/ EndBatch
    \/ ImageStep
    \/ run = 1 /\ LabelsStep
    \/ run = 2 /\ LabelsStep_multitask
    \/ NoLabelsStep
    \/ RunAgain

VariantsSpec == VariantsInit /\ [][VariantsNext]_vars

(***************************************************************************)
(* The training loop of the coordinate-only notebook.                      *)
(***************************************************************************)
\* DataLoader(..., batch_size=32)
batch_size == 32

num_epochs == 10

\* len(dataloader): the last batch may be short
NumBatches(df) == (Len(df) + batch_size - 1) \div batch_size

\* the positions of batch b (from 0); shuffle=True draws them in another order and
\* leaves the batch sizes as they are
BatchPositions(df, b) == {i \in 1..Len(df) : (i - 1) \div batch_size = b}

\* a worker's __getitem__ raised while the batch was collected
LoadFails(d, df, b) == \E i \in BatchPositions(df, b) : getitem(d, df, i).raised

\* the labels of batch b as the loader collates them
LabelsTensor(b) == [kind |-> "tensor", batch |-> b]

\* f'{full_dir_path}/model_weights_epoch-{epoch+1}.pth'
CheckpointName(k) == <<"model_weights_epoch-", k, ".pth">>

\* one iteration of the validation loop: [exc, log]
validation_batch(d, lg, df, b) ==
    IF LoadFails(d, df, b) THEN [exc |-> "FileNotFoundError", log |-> lg]
    ELSE LET returned == process_labels(d, lg, LabelsTensor(b), None, 0)
             labels == process_labels_value(returned)
         IN  IF returned.raised THEN [exc |-> "ValueError", log |-> returned.log]
             ELSE IF labels = None THEN [exc |-> "AttributeError", log |-> returned.log]
             ELSE [exc |-> NoExc, log |-> returned.log]

\* the validation loop from batch b on, up to the first exception
RECURSIVE validation_loop(_, _, _, _)
validation_loop(d, lg, df, b) ==
    IF b >= NumBatches(df) THEN [exc |-> NoExc, log |-> lg]
    ELSE LET r == validation_batch(d, lg, df, b)
         IN  IF r.exc # NoExc THEN r ELSE validation_loop(d, r.log, df, b + 1)

\* os.makedirs(full_dir_path, exist_ok=True); for epoch in range(num_epochs)
StartTraining ==
    /\ pc = "ready"
    /\ pc' = "train"
    /\ epoch' = 0
    /\ batch' = 0
    /\ UNCHANGED <<disk, todoGames, game_dir, todoClips, clip_dir, todoImages, log,
                   calledImage, calledLabels, data, train_df, val_df, item, saved_models,
                   run, glob_first>>

\* one iteration of the training loop of the epoch
TrainBatch ==
    /\ pc = "train"
    /\ batch < NumBatches(train_df)
    /\ IF LoadFails(disk, train_df, batch)
       THEN pc' = "train_crashed" /\ batch' = batch
       ELSE pc' = "train" /\ batch' = batch + 1
    /\ UNCHANGED <<disk, todoGames, game_dir, todoClips, clip_dir, todoImages, log,
                   calledImage, calledLabels, data, train_df, val_df, item, epoch,
                   saved_models, run, glob_first>>

\* the rest of the epoch: the validation pass, the loss average, torch.save
Validate ==
    /\ pc = "train"
    /\ batch = NumBatches(train_df)
    /\ LET r == validation_loop(disk, log, val_df, 0)
           exc == IF r.exc # NoExc THEN r.exc
                  ELSE IF Len(val_df) = 0 THEN "ZeroDivisionError"
                  ELSE NoExc
       IN  /\ log' = r.log
           /\ IF exc # NoExc
              THEN /\ pc' = "train_crashed"
                   /\ UNCHANGED <<epoch, batch, saved_models>>
              ELSE /\ saved_models' = saved_models \cup {CheckpointName(epoch + 1)}
                   /\ epoch' = epoch + 1
                   /\ batch' = 0
                   /\ pc' = IF epoch + 1 = num_epochs THEN "trained" ELSE "train"
    /\ UNCHANGED <<disk, todoGames, game_dir, todoClips, clip_dir, todoImages,
                   calledImage, calledLabels, data, train_df, val_df, item, run, glob_first>>

TrainNext ==
    \/ Split
    \/ SplitError
    \/ StartTraining
    \/ TrainBatch
    \/ Validate

TrainSpec == DatasetInit /\ [][TrainNext]_vars

(***************************************************************************)
(* Properties.                                                             *)
(***************************************************************************)
Range(s) == {s[i] : i \in 1..Len(s)}

AllJpgs == {p \in DOMAIN disk : MatchExt(p.name, ".jpg")}

AllCsvs == {p \in DOMAIN disk : p.name = LabelCsv}

\* the persisted frames: the .npy files that hold a three-axis array
FrameArtifacts ==
    {p \in DOMAIN disk : disk[p].kind = "npy" /\ Len(disk[p].arr.shape) = 3}

\* the frame artifact that holds the pixels of the .jpg file F
FrameArtifactsOf(F) == {q \in FrameArtifacts : disk[q].arr.pix = disk[F].pix}

\* the rows of F's clip table that annotate F
RowsOf(F) ==
    LET csv == Sibling(F, LabelCsv)
    IN  IF csv \in DOMAIN disk /\ disk[csv].state = "ok"
        THEN {r \in Range(disk[csv].rows) : r.name = F.name}
        ELSE {}

UpdatedCsv(csv) == Sibling(csv, UpdatedName(csv.name))

BatchDone == pc \in {"done", "indexed", "ready", "split_error"}

AllPassed == calledImage = AllJpgs /\ calledLabels = AllCsvs

\* the frames handed to process_image that have no frame artifact
FailedFrames == {F \in calledImage : FrameArtifactsOf(F) = {}}

ImageFailed == FailedFrames # {}

InBatch == pc \in {"loop", "images"}

\* the iterations the batch loop has left, counted in steps
Remaining ==
    IF ~InBatch THEN 0
    ELSE (Cardinality(todoClips) + Cardinality({cl \in Clips : cl[1] \in todoGames}))
           * (Cardinality(AllJpgs) + 2)
         + (IF pc = "images" THEN Cardinality(todoImages) + 2 ELSE 1)

\* the frame an index entry stands for: game, clip and base file name
EntryIsFrame(e, F) ==
    /\ e.game_directory = F.game
    /\ e.clip_directory = F.clip
    /\ split_first(e.file_name, <<".jpg", "_labels">>) \o <<".jpg">> = F.name

\* the label artifact of the frame an entry stands for
LabelArtifactOf(e) ==
    Path(e.game_directory, e.clip_directory,
         LabelsName(split_first(e.file_name, <<".jpg", "_labels">>) \o <<".jpg">>))

\* the clips whose decodable images all have one size, and that size
UniformSize(F) ==
    LET sizes == {disk[p].size : p \in {q \in GlobExt(disk, F.game, F.clip, ".jpg") : disk[q].ok}}
    IN  IF Cardinality(sizes) = 1 THEN CHOOSE sz \in sizes : TRUE ELSE Corrupt

InRange(r, size) ==
    /\ 0 <= r.x[1] /\ r.x[1] <= size[1] * r.x[2]
    /\ 0 <= r.y[1] /\ r.y[1] <= size[2] * r.y[2]

\* C1: in a clip whose images have one size, the label persisted for a row whose raw
\* x lies in [0, original width] and raw y in [0, original height] has both
\* components in [0, 1]
C1_LabelInUnitSquare ==
    \A F \in AllJpgs : \A r \in RowsOf(F) :
        LET p == Sibling(F, LabelsName(r.name))
        IN  (p \in DOMAIN disk /\ UniformSize(F) # Corrupt /\ InRange(r, UniformSize(F)))
              => /\ InUnit(disk[p].arr.value[1])
                 /\ InUnit(disk[p].arr.value[2])

\* C1 witness: a label was persisted for a row on the right edge of its image
C1_Witness ==
    \E F \in AllJpgs : \E r \in RowsOf(F) :
        /\ Sibling(F, LabelsName(r.name)) \in DOMAIN disk
        /\ UniformSize(F) # Corrupt
        /\ InRange(r, UniformSize(F))
        /\ r.x[1] = UniformSize(F)[1]
        /\ disk[Sibling(F, LabelsName(r.name))].arr.value[1] = <<1, 1>>

\* C2: the persisted label is the direct ratio (x_raw / original width,
\* y_raw / original height), whatever the target resolution; 1280x720 with
\* (640, 360) gives (0.5, 0.5)
C2_LabelIsDirectRatio ==
    \A F \in AllJpgs : \A r \in RowsOf(F) :
        LET p == Sibling(F, LabelsName(r.name))
            size == UniformSize(F)
        IN  (p \in DOMAIN disk /\ size # Corrupt)
              => /\ disk[p].arr.value = <<Rat(r.x[1], size[1]), Rat(r.y[1], size[2])>>
                 /\ (size = <<1280, 720>> /\ r.x = <<640, 1>> /\ r.y = <<360, 1>>)
                      => disk[p].arr.value = <<<<1, 2>>, <<1, 2>>>>

\* C2 witness: the label of (640, 360) in a 1280x720 image was persisted as (1/2, 1/2)
C2_Witness ==
    \E F \in AllJpgs : \E r \in RowsOf(F) :
        /\ UniformSize(F) = <<1280, 720>>
        /\ r.x = <<640, 1>> /\ r.y = <<360, 1>>
        /\ Sibling(F, LabelsName(r.name)) \in DOMAIN disk
        /\ disk[Sibling(F, LabelsName(r.name))].arr.value = <<<<1, 2>>, <<1, 2>>>>

\* C3: a frame for which process_image failed is no entry of the index built by
\* the scan, when process_labels ran for the frame's clip
C3_FailedFrameNotIndexed ==
    \A F \in FailedFrames :
        Sibling(F, LabelCsv) \in calledLabels
          => \A i \in 1..Len(data) : ~EntryIsFrame(data[i], F)

\* C4: the index holds exactly one entry per persisted frame artifact, and no
\* entry comes from a persisted label artifact
C4_OneEntryPerFrame ==
    pc \in {"indexed", "ready", "split_error"}
      => /\ Len(data) = Cardinality(FrameArtifacts)
         /\ \A i \in 1..Len(data) :
               Path(data[i].game_directory, data[i].clip_directory,
                    data[i].file_name \o <<".npy">>) \in FrameArtifacts

\* round(0.2 * n): n / 5 is never halfway between two integers
RoundFifth(n) == (2 * n + 5) \div 10

\* C5: when the split succeeds, the two parts are disjoint sets of entries, their
\* sizes sum to n, and the validation part has round(0.2 n) entries, give or take one
C5_Partition ==
    pc = "ready"
      => /\ Range(train_df) \cap Range(val_df) = {}
         /\ Range(train_df) \cup Range(val_df) = Range(data)
         /\ Cardinality(Range(train_df)) = Len(train_df)
         /\ Cardinality(Range(val_df)) = Len(val_df)
         /\ Len(train_df) + Len(val_df) = Len(data)
         /\ Len(val_df) - RoundFifth(Len(data)) \in {-1, 0, 1}

\* C5 witness: a split with two validation entries, one more than round(0.2 n)
C5_Witness ==
    /\ pc = "ready"
    /\ Len(val_df) = 2
    /\ RoundFifth(Len(data)) = 1

\* C6: once process_image has failed for a frame the batch loop does not abort:
\* every step of the loop leaves fewer steps to take, so the loop ends, and when
\* it has ended every .jpg was passed to process_image and every Label.csv to
\* process_labels
C6_ImageFailureDoesNotAbort ==
    /\ [](ImageFailed => (pc # "crashed" /\ (BatchDone => AllPassed)))
    /\ [][InBatch => (Remaining' < Remaining /\ Remaining' >= 0)]_vars

\* C6 witness: the loop ended after a failed frame, with a frame of another game
\* persisted and a table handed to process_labels
C6_Witness ==
    /\ pc = "done"
    /\ \E F \in FailedFrames : \E q \in FrameArtifacts : q.game # F.game
    /\ calledLabels # {}

\* C7: a failure inside process_labels is caught and logged with the csv path, and
\* the loop goes on to all remaining clips and games
C7_LabelsFailureCaught ==
    /\ pc # "crashed"
    /\ \A csv \in calledLabels :
          UpdatedCsv(csv) \notin DOMAIN disk => LabelsError(csv) \in log
    /\ BatchDone => AllPassed

\* C7 witness: the loop ended with one table failed and logged and another table
\* processed to the end
C7_Witness ==
    /\ BatchDone
    /\ \E a, b \in calledLabels :
          /\ LabelsError(a) \in log
          /\ UpdatedCsv(b) \in DOMAIN disk

\* C8: process_labels on a clip with a Label.csv and no .jpg file logs an error,
\* lets no exception escape and writes neither a label artifact nor the updated table
C8_NoRepresentativeImage ==
    \A csv \in calledLabels :
        GlobExt(disk, csv.game, csv.clip, ".jpg") = {}
          => /\ pc # "crashed"
             /\ LabelsError(csv) \in log
             /\ UpdatedCsv(csv) \notin DOMAIN disk
             /\ GlobExt(disk, csv.game, csv.clip, ".npy") = {}

\* C8 witness: a readable table with rows was processed in a clip without images
C8_Witness ==
    \E csv \in calledLabels :
        /\ GlobExt(disk, csv.game, csv.clip, ".jpg") = {}
        /\ disk[csv].state = "ok"
        /\ Len(disk[csv].rows) > 0
        /\ LabelsError(csv) \in log

\* C9: a retrieval of an entry whose label artifact is not on disk raises; a
\* retrieval that returns carries the stored label
C9_MissingLabelRaises ==
    item # None
      => LET e == Dataframe(item.ds)[item.idx]
         IN  /\ LabelArtifactOf(e) \notin DOMAIN disk => item.out.raised
             /\ ~item.out.raised
                  => /\ LabelArtifactOf(e) \in DOMAIN disk
                     /\ item.out.labels = disk[LabelArtifactOf(e)].arr

\* C9 witness: a retrieval raised for an entry with a frame artifact and no label
C9_Witness ==
    /\ item # None
    /\ item.out.raised
    /\ LabelArtifactOf(Dataframe(item.ds)[item.idx]) \notin DOMAIN disk
    /\ item.out.image_path \in FrameArtifacts

\* the retrieval returned the frame artifact of F and the label artifact of F's row
LoadsPairOf(F) ==
    /\ ~item.out.raised
    /\ item.out.image_path \in FrameArtifactsOf(F)
    /\ item.out.image = transpose(disk[item.out.image_path].arr)
    /\ item.out.labels_path = Sibling(F, LabelsName(F.name))
    /\ item.out.labels = disk[Sibling(F, LabelsName(F.name))].arr

\* the entries the scan makes for the artifacts of F
EntriesOf(F) ==
    {Entry(q) : q \in FrameArtifactsOf(F) \cup {Sibling(F, LabelsName(F.name))}}

\* C10: for a frame named in its clip's table, with its frame artifact written and
\* its table processed to the end, the retrieval of the frame's entry loads that
\* frame artifact and the label artifact of the frame's row
C10_NamingConsistent ==
    item # None
      => \A F \in AllJpgs :
           (/\ RowsOf(F) # {}
            /\ FrameArtifactsOf(F) # {}
            /\ UpdatedCsv(Sibling(F, LabelCsv)) \in DOMAIN disk
            /\ Dataframe(item.ds)[item.idx] \in EntriesOf(F))
             => LoadsPairOf(F)

\* C10 witness: such a frame was retrieved through its own entry
C10_Witness ==
    /\ item # None
    /\ \E F \in AllJpgs :
          /\ RowsOf(F) # {}
          /\ FrameArtifactsOf(F) # {}
          /\ UpdatedCsv(Sibling(F, LabelCsv)) \in DOMAIN disk
          /\ Dataframe(item.ds)[item.idx] = Entry(CHOOSE q \in FrameArtifactsOf(F) : TRUE)
          /\ LoadsPairOf(F)

\* the persisted labels: the .npy files that hold a one-axis array
LabelArtifacts ==
    {p \in DOMAIN disk : disk[p].kind = "npy" /\ Len(disk[p].arr.shape) = 1}

C12_OneArtifactPerFrame ==
    [][\A F \in calledImage' \ calledImage :
          LET out == Sibling(F, <<F.name[1], ".npy">>)
          IN  /\ F \in DOMAIN disk' /\ disk'[F] = disk[F]
              /\ IF ImageError(F) \in log'
                 THEN disk' = disk
                 ELSE /\ out \notin DOMAIN disk
                      /\ DOMAIN disk' = DOMAIN disk \cup {out}
                      /\ disk'[out].kind = "npy"
                      /\ \A p \in DOMAIN disk : disk'[p] = disk[p]]_vars

\* C12 witness: one frame was processed into its .npy artifact next to its .jpg, and
\* another frame failed and has none
C12_Witness ==
    /\ \E F \in calledImage :
          /\ ImageError(F) \notin log
          /\ Sibling(F, <<F.name[1], ".npy">>) \in FrameArtifacts
          /\ disk[F].kind = "jpg"
    /\ \E G \in calledImage :
          /\ ImageError(G) \in log
          /\ Sibling(G, <<G.name[1], ".npy">>) \notin DOMAIN disk

\* C13: in one preparation batch no work item writes a path another item wrote: no
\* step of the batch loop changes a file that exists, and a table processed to the
\* end has added one label artifact per row
C13_DistinctOutputPaths ==
    [][/\ \A p \in DOMAIN disk : p \in DOMAIN disk' /\ disk'[p] = disk[p]
       /\ \A csv \in calledLabels' \ calledLabels :
             UpdatedCsv(csv) \in DOMAIN disk'
               => Cardinality({p \in DOMAIN disk' \ DOMAIN disk :
                                 disk'[p].kind = "npy"}) = Len(disk[csv].rows)]_vars

\* C13 witness: the batch ended with a table of two rows processed to the end, two
\* label artifacts and a frame artifact in its clip
C13_Witness ==
    /\ pc = "done"
    /\ \E csv \in calledLabels :
          /\ UpdatedCsv(csv) \in DOMAIN disk
          /\ Len(disk[csv].rows) = 2
          /\ Cardinality({p \in LabelArtifacts : p.game = csv.game /\ p.clip = csv.clip}) = 2
          /\ \E q \in FrameArtifacts : q.game = csv.game /\ q.clip = csv.clip

FrameOfEntry(e) ==
    Path(e.game_directory, e.clip_directory,
         split_first(e.file_name, <<".jpg", "_labels">>) \o <<".jpg">>)

\* C16: __len__ is the number of rows of the table, every retrieved position is one
\* of them, and a retrieval whose artifacts are on disk returns the pair of that
\* row's frame: the image artifact as (channel, height, width) and the two-component
\* label
C16_LenAndPositionalPair ==
    item # None
      => LET df == Dataframe(item.ds)
             F == FrameOfEntry(df[item.idx])
         IN  /\ len(df) = Len(df)
             /\ item.idx \in 1..len(df)
             /\ (FrameArtifactsOf(F) # {} /\ LabelArtifactOf(df[item.idx]) \in DOMAIN disk)
                   => /\ ~item.out.raised
                      /\ item.out.image.pix = disk[F].pix
                      /\ item.out.image.shape = <<3, image_size[2], image_size[1]>>
                      /\ item.out.labels = disk[LabelArtifactOf(df[item.idx])].arr
                      /\ item.out.labels.shape = <<2>>

\* C16 witness: the last row of a table of three rows was retrieved and its pair
\* returned
C16_Witness ==
    /\ item # None
    /\ len(Dataframe(item.ds)) = 3
    /\ item.idx = 3
    /\ ~item.out.raised
    /\ item.out.image.shape = <<3, 224, 224>>

\* every row of both tables can be retrieved
AllRetrievable ==
    \A ds \in {"train", "val"} : \A i \in 1..Len(Dataframe(ds)) :
        ~getitem(disk, Dataframe(ds), i).raised

\* C17: the training loop writes one checkpoint per epoch, model_weights_epoch-k.pth
\* at the end of epoch k: between epochs the checkpoints are those of the epochs
\* done, and a run over retrievable tables stops with those of epochs 1..num_epochs
C17_CheckpointPerEpoch ==
    /\ pc = "train" => saved_models = {CheckpointName(k) : k \in 1..epoch}
    /\ (pc \in {"train_crashed", "trained"} /\ AllRetrievable)
          => saved_models = {CheckpointName(k) : k \in 1..num_epochs}

\* C18: a call of process_labels leaves the clip's Label.csv and every other file
\* that exists as it was; the files it adds are Label_updated.csv in the same
\* directory and the label artifacts of the table's rows
C18_OriginalTableKept ==
    [][\A csv \in calledLabels' \ calledLabels :
          /\ \A p \in DOMAIN disk : p \in DOMAIN disk' /\ disk'[p] = disk[p]
          /\ \A p \in DOMAIN disk' \ DOMAIN disk :
                \/ p = Sibling(csv, <<"Label", "_updated", ".csv">>)
                \/ \E k \in 1..Len(disk[csv].rows) :
                      p = Sibling(csv, disk[csv].rows[k].name \o <<"_labels", ".npy">>)]_vars

\* C18 witness: a table was processed to the end: the updated copy holds the adjusted
\* rows, the original holds the raw rows, and a label artifact was written
C18_Witness ==
    \E csv \in calledLabels :
        LET updated == Sibling(csv, <<"Label", "_updated", ".csv">>)
        IN  /\ updated \in DOMAIN disk
            /\ disk[csv].state = "ok"
            /\ disk[csv].rows[1].x = FromInt(640)
            /\ disk[updated].rows[1].x = <<1, 2>>
            /\ Sibling(csv, disk[csv].rows[1].name \o <<"_labels", ".npy">>) \in DOMAIN disk

\* C19: the array process_image persists for an image that decodes has the shape
\* (target height, target width, 3) = (224, 224, 3), whatever the image's size
C19_FrameShape ==
    \A F \in calledImage :
        (disk[F].ok /\ ImageError(F) \notin log)
          => LET out == Sibling(F, <<F.name[1], ".npy">>)
             IN  /\ out \in DOMAIN disk
                 /\ disk[out].arr.shape = <<image_size[2], image_size[1], 3>>
                 /\ disk[out].arr.shape = <<224, 224, 3>>

\* C19 witness: the artifact of a 1920x1080 image has the shape (224, 224, 3)
C19_Witness ==
    \E F \in calledImage :
        /\ disk[F].ok
        /\ disk[F].size = <<1920, 1080>>
        /\ Sibling(F, <<F.name[1], ".npy">>) \in DOMAIN disk
        /\ disk[Sibling(F, <<F.name[1], ".npy">>)].arr.shape = <<224, 224, 3>>

\* C20: in the multitask pipeline too, the x and y persisted for a row whose raw
\* coordinates lie inside the original image are divided by the target resolution
\* and lie in [0, 1]
C20_MultitaskLabelInUnitSquare ==
    \A F \in AllJpgs : \A r \in RowsOf(F) :
        LET p == Sibling(F, LabelsName(r.name))
        IN  (p \in DOMAIN disk /\ UniformSize(F) # Corrupt /\ InRange(r, UniformSize(F)))
              => /\ InUnit(disk[p].arr.value[2])
                 /\ InUnit(disk[p].arr.value[3])

(***************************************************************************)
(* C21: in the multitask notebook, for every frame whose image artifact was *)
(* written by process_image and whose label artifact was written by         *)
(* process_labels, some 'file name' value makes __getitem__ resolve         *)
(* image_path and labels_path to those two artifacts.                       *)
(***************************************************************************)
BothArtifacts(F) ==
    /\ Sibling(F, with_suffix(F.name, <<".npy">>)) \in DOMAIN disk
    /\ Sibling(F, LabelsName(F.name)) \in DOMAIN disk

ResolvesBoth(F, file_name) ==
    LET out == getitem_multitask(disk, <<RowFor(F, file_name)>>, 1)
    IN  /\ out.image_path = Sibling(F, with_suffix(F.name, <<".npy">>))
        /\ out.labels_path = Sibling(F, LabelsName(F.name))

C21_MultitaskNamingConsistent ==
    \A F \in AllJpgs :
       BothArtifacts(F) => \E file_name \in FileNameValues(F) : ResolvesBoth(F, file_name)

(***************************************************************************)
(* C22: process_labels writes the updated table only after the label       *)
(* artifact of every row has been persisted.  In the step that calls it on *)
(* a clip for the first time, the rows that have a label artifact          *)
(* afterwards are the rows before some row k; when the updated table is    *)
(* there, they are all the rows; when the call was aborted, the updated    *)
(* table is not there.                                                     *)
(***************************************************************************)
SavedRows(d, csv) ==
    {k \in 1..Len(disk[csv].rows) :
        Sibling(csv, LabelsName(disk[csv].rows[k].name)) \in DOMAIN d}

C22_TableAfterEveryRow ==
    [][\A csv \in calledLabels' \ calledLabels :
          LET n == Len(disk[csv].rows)
              saved == SavedRows(disk', csv)
          IN  /\ \E k \in 1..(n + 1) : saved = 1..(k - 1)
              /\ UpdatedCsv(csv) \in DOMAIN disk' => saved = 1..n
              /\ LabelsError(csv) \in log' => UpdatedCsv(csv) \notin DOMAIN disk']_vars

\* C22 witness: the first call on a table of two rows was aborted at its second
\* row: the first row's label artifact is there, the second row's is not, and
\* there is no updated table
C22_Witness ==
    /\ run = 1
    /\ \E csv \in calledLabels :
          /\ Len(disk[csv].rows) = 2
          /\ LabelsError(csv) \in log
          /\ SavedRows(disk, csv) = {1}
          /\ UpdatedCsv(csv) \notin DOMAIN disk

(***************************************************************************)
(* C23: a frame that does not decode affects only its own artifacts.  When *)
(* the batch loop is about to process the labels of a clip that holds such *)
(* a frame, the call persists, unless one of its writes fails, the label   *)
(* artifact of every decodable frame of the clip that has a row in the     *)
(* table, whichever .jpg file the glob returns first.                      *)
(***************************************************************************)
C23_CorruptFrameIsolated ==
    (pc = "images" /\ todoImages = {}) =>
       \A csv_file \in GlobName(disk, game_dir, clip_dir, LabelCsv) :
       \A first \in FirstJpgs(disk, glob_first, game_dir, clip_dir) :
          LET r == process_labels(disk, log, csv_file, first, 0)
              jpgs == GlobExt(disk, game_dir, clip_dir, ".jpg")
          IN  (disk[csv_file].state = "ok" /\ \E G \in jpgs : ~disk[G].ok)
                 => \A F \in jpgs :
                       (disk[F].ok /\ RowsOf(F) # {})
                          => Sibling(F, LabelsName(F.name)) \in DOMAIN r.disk

(***************************************************************************)
(* C24: after the index is built by the directory scan and split, no frame *)
(* can be retrieved from both the training and the validation dataset: a   *)
(* training position and a validation position whose retrievals return     *)
(* never resolve to the same image artifact.                               *)
(***************************************************************************)
C24_NoFrameInBothDatasets ==
    pc = "ready"
      => \A i \in 1..Len(train_df), j \in 1..Len(val_df) :
            LET a == getitem(disk, train_df, i)
                b == getitem(disk, val_df, j)
            IN  (~a.raised /\ ~b.raised) => a.image_path # b.image_path

(***************************************************************************)
(* C25: process_labels takes the original width and height once per clip,  *)
(* from the first .jpg file the glob returns, and applies that pair to     *)
(* every row: each persisted label is the row's raw point divided by the   *)
(* size of that first file, whatever the size of the row's own image.      *)
(***************************************************************************)
C25_SizeOncePerClip ==
    \A csv \in calledLabels : \A k \in 1..Len(disk[csv].rows) :
        LET r == disk[csv].rows[k]
            p == Sibling(csv, LabelsName(r.name))
            first == glob_first[<<csv.game, csv.clip>>]
        IN  p \in DOMAIN disk
              => /\ first \in AllJpgs
                 /\ disk[first].ok
                 /\ disk[p].arr.value = <<Rat(r.x[1], disk[first].size[1]),
                                          Rat(r.y[1], disk[first].size[2])>>

\* C25 witness: a clip of two decodable frames of different sizes, the label of
\* the frame that the glob did not return first persisted with the first one's size
C25_Witness ==
    \E csv \in calledLabels : \E F \in AllJpgs :
        LET first == glob_first[<<csv.game, csv.clip>>]
            p == Sibling(F, LabelsName(F.name))
        IN  /\ F.game = csv.game /\ F.clip = csv.clip
            /\ first \in AllJpgs
            /\ F # first
            /\ disk[F].ok /\ disk[first].ok
            /\ disk[F].size # disk[first].size
            /\ p \in DOMAIN disk
            /\ disk[p].arr.value[1] = Rat(640, disk[first].size[1])

(***************************************************************************)
(* C26: in the batch loop every .jpg file of a clip is passed to           *)
(* process_image before the clip's labels are processed; process_labels is *)
(* called at most once per clip and only on the clip's file named          *)
(* Label.csv; a clip without that file is left with a change to no file,   *)
(* no logged error and no exception, so it holds no label artifact.        *)
(***************************************************************************)
ClipCsvs == {p \in DOMAIN disk : p.game = game_dir /\ p.clip = clip_dir /\ p.name = LabelCsv}

C26_ImagesBeforeLabelsOncePerClip ==
    /\ [](\A p \in LabelArtifacts : Sibling(p, LabelCsv) \in calledLabels)
    /\ [][/\ calledLabels' # calledLabels => (pc = "images" /\ pc' # "images")
          /\ (pc = "images" /\ pc' # "images")
               => /\ GlobExt(disk, game_dir, clip_dir, ".jpg") \subseteq calledImage
                  /\ IF ClipCsvs = {}
                     THEN /\ disk' = disk
                          /\ log' = log
                          /\ calledLabels' = calledLabels
                          /\ pc' = "loop"
                     ELSE /\ ClipCsvs \cap calledLabels = {}
                          /\ calledLabels' = calledLabels \cup ClipCsvs
                          /\ Cardinality(ClipCsvs) = 1]_vars

\* C26 witness: the batch ended without a logged error over a clip with a frame and
\* a table, whose labels were processed after its image, and a clip with a frame and
\* no table, which holds a frame artifact and no label artifact
C26_Witness ==
    /\ pc = "done"
    /\ log = {}
    /\ \E csv \in calledLabels : \E F \in calledImage :
          /\ F.game = csv.game /\ F.clip = csv.clip
          /\ Sibling(F, LabelsName(F.name)) \in LabelArtifacts
    /\ \E G \in calledImage :
          /\ Sibling(G, LabelCsv) \notin DOMAIN disk
          /\ FrameArtifactsOf(G) # {}
          /\ \A p \in LabelArtifacts : <<p.game, p.clip>> # <<G.game, G.clip>>

(***************************************************************************)
(* C27: the preparation batch run again over a directory that holds the    *)
(* artifacts of a previous run processes the same inputs, only .jpg files  *)
(* and the file named Label.csv, and leaves the same files with the same   *)
(* contents: the second run passes no file the first did not, changes no   *)
(* file's content, and, when every call that failed is one that fails on   *)
(* its input whenever it is made, adds no file.                            *)
(***************************************************************************)
\* the errors that recur in every run: a frame that does not decode, and a table
\* whose clip has no .jpg file or an undecodable one as the first the glob returns
RecurringErrors ==
    {ImageError(F) : F \in {G \in AllJpgs : ~disk[G].ok}}
      \cup {LabelsError(csv) : csv \in
               {c \in calledLabels :
                   LET first == glob_first[<<c.game, c.clip>>]
                   IN  first = None \/ ~disk[first].ok}}

WrittenLabel(csv, k) ==
    LET p == Sibling(csv, LabelsName(disk[csv].rows[k].name))
    IN  /\ p \in DOMAIN disk'
        /\ \/ p \notin DOMAIN disk
           \/ disk'[p] # disk[p]
           \/ LabelsError(csv) \notin log'

C28_LabelComponents ==
    [][(pc = "images" /\ pc' = "loop")
         => \A csv \in ClipCsvs : \A k \in 1..Len(disk[csv].rows) :
               LET r == disk[csv].rows[k]
                   arr == disk'[Sibling(csv, LabelsName(r.name))].arr
                   size == disk[glob_first'[<<csv.game, csv.clip>>]].size
               IN  WrittenLabel(csv, k)
                     => IF run = 1
                        THEN /\ arr.shape = <<2>>
                             /\ Len(arr.value) = 2
                             /\ arr.value[1] = Rat(r.x[1], size[1])
                             /\ arr.value[2] = Rat(r.y[1], size[2])
                        ELSE /\ arr.shape = <<4>>
                             /\ Len(arr.value) = 4
                             /\ arr.value[1] = visibility_class_mapping[r.visibility]
                             /\ arr.value[2] = Rat(r.x[1] * image_size[1], size[1])
                             /\ arr.value[3] = Rat(r.y[1] * image_size[2], size[2])
                             /\ arr.value[4] = trajectory_pattern_mapping[r.status]]_vars

\* C28 witness: the multitask preparation, run after the coordinate-only one, was
\* aborted at the second row: the first row's label holds the four components,
\* the second row's label still the two
C28_Witness ==
    /\ run = 2
    /\ \E csv \in calledLabels :
          LET a == disk[Sibling(csv, LabelsName(disk[csv].rows[1].name))].arr
              b == disk[Sibling(csv, LabelsName(disk[csv].rows[2].name))].arr
          IN  /\ SavedRows(disk, csv) = {1, 2}
              /\ a.shape = <<4>>
              /\ a.value[1] = "occluded"
              /\ a.value[4] = "bounding"
              /\ b.shape = <<2>>
              /\ b.value = <<<<1, 2>>, <<1, 2>>>>

(***************************************************************************)
(* C29: every channel c of every pixel of a persisted frame holds          *)
(* (intensity / 255 - mean[c]) / std[c], where the first channel is the    *)
(* red intensity of the resized image, the second the green and the third  *)
(* the blue: the channels are reordered from the decoder's BGR order       *)
(* before the per-channel standardization.                                 *)
(***************************************************************************)
\* (v / 255 - m / 1000) / (sd / 1000) as one fraction
Standardized(v, m, sd) == Rat(1000 * v - m * 255, sd * 255)

C29_StandardizedPixels ==
    \A F \in calledImage :
        LET out == Sibling(F, with_suffix(F.name, <<".npy">>))
        IN  out \in FrameArtifacts
              => /\ disk[out].arr.order = "RGB"
                 /\ Len(disk[out].arr.pixels) = Len(SamplePixels)
                 /\ \A k \in 1..Len(SamplePixels) :
                       LET blue == SamplePixels[k][1]
                           green == SamplePixels[k][2]
                           red == SamplePixels[k][3]
                       IN  disk[out].arr.pixels[k] =
                              <<Standardized(red, 485, 229),
                                Standardized(green, 456, 224),
                                Standardized(blue, 406, 225)>>

\* C29 witness: a persisted frame whose pixel of blue 10, green 128 and red 255
\* holds (1 - 0.485) / 0.229 = 515/229 in its first channel, a negative value in
\* its third
C29_Witness ==
    \E F \in calledImage :
        LET out == Sibling(F, with_suffix(F.name, <<".npy">>))
        IN  /\ out \in FrameArtifacts
            /\ SamplePixels[2] = <<10, 128, 255>>
            /\ disk[out].arr.pixels[2][1] = <<515, 229>>
            /\ disk[out].arr.pixels[2][3][1] < 0

====
